---------------------------- MODULE Spec2Model ----------------------------
(***************************************************************************)
(* A model of the Salesforce Deployment Guard extension                    *)
(* (src/src/extension.ts): the session cache, the sync watermark store,    *)
(* the conflict detector and the retrieve / safe-deploy commands.          *)
(*                                                                         *)
(* Conventions.                                                            *)
(*  - A JavaScript string is a sequence of one-character strings.          *)
(*  - A nullable value is a sequence of length 0 (null / undefined) or 1.  *)
(*  - A Date is a number of minutes; the clock advances in the steps of    *)
(*    TickSteps.                                                           *)
(*  - A Map<string, Date> is a function whose DOMAIN is its key set.       *)
(***************************************************************************)
EXTENDS Integers, Sequences, FiniteSets, TLC

(***************************************************************************)
(* Strings                                                                 *)
(***************************************************************************)
UpperChars == <<"A","B","C","D","E","F","G","H","I","J","K","L","M",
                "N","O","P","Q","R","S","T","U","V","W","X","Y","Z">>

LowerChars == <<"a","b","c","d","e","f","g","h","i","j","k","l","m",
                "n","o","p","q","r","s","t","u","v","w","x","y","z">>

\* One character of String.prototype.toLowerCase.
ToLowerChar(c) ==
    IF \E i \in 1..26 : UpperChars[i] = c
    THEN LowerChars[CHOOSE i \in 1..26 : UpperChars[i] = c]
    ELSE c

\* String.prototype.toLowerCase.
ToLowerCase(s) == [i \in 1..Len(s) |-> ToLowerChar(s[i])]

\* String.prototype.includes: t occurs in s as a contiguous substring.
Includes(s, t) ==
    \E i \in 0..(Len(s) - Len(t)) : SubSeq(s, i + 1, i + Len(t)) = t

\* String.prototype.endsWith.
EndsWith(s, t) ==
    /\ Len(t) <= Len(s)
    /\ SubSeq(s, Len(s) - Len(t) + 1, Len(s)) = t

\* a || b on strings: the empty string is falsy.
OrElse(a, b) == IF a # <<>> THEN a ELSE b

\* Nullable values.
Null == <<>>

Some(x) == <<x>>

Val(o) == o[1]

(***************************************************************************)
(* Paths (path.posix of Node.js)                                           *)
(***************************************************************************)
\* The index of the last occurrence of character c in s, 0 when there is none.
LastIndexOf(s, c) ==
    IF \E i \in 1..Len(s) : s[i] = c
    THEN CHOOSE i \in 1..Len(s) : s[i] = c /\ \A j \in (i + 1)..Len(s) : s[j] # c
    ELSE 0

\* s.split(/[/\\]/): the segments between the separators.
RECURSIVE Split(_)
Split(s) ==
    IF \E i \in 1..Len(s) : s[i] \in {"/", "\\"}
    THEN LET i == CHOOSE k \in 1..Len(s) :
                     /\ s[k] \in {"/", "\\"}
                     /\ \A j \in 1..(k - 1) : s[j] \notin {"/", "\\"}
         IN  <<SubSeq(s, 1, i - 1)>> \o Split(SubSeq(s, i + 1, Len(s)))
    ELSE <<s>>

\* The path without its trailing slashes.
RECURSIVE TrimSlashes(_)
TrimSlashes(s) ==
    IF s # <<>> /\ s[Len(s)] = "/" THEN TrimSlashes(SubSeq(s, 1, Len(s) - 1)) ELSE s

\* The last component of a path: what follows its last "/".
LastComponent(p) ==
    LET t == TrimSlashes(p)
    IN  SubSeq(t, LastIndexOf(t, "/") + 1, Len(t))

\* path.extname: from the last "." of the last component to its end; empty
\* when there is no ".", when the "." is the component's first character, or
\* when the component is "..".
ExtName(p) ==
    LET b == LastComponent(p)
        d == LastIndexOf(b, ".")
    IN  IF d <= 1 \/ b = <<".", ".">> THEN <<>> ELSE SubSeq(b, d, Len(b))

\* path.basename(p, suffix): the last component, without the suffix when the
\* component ends with it (compared case-sensitively) and is longer than it.
BaseName(p, suffix) ==
    LET b == LastComponent(p)
    IN  IF suffix # <<>> /\ Len(suffix) <= Len(p) /\ suffix = p THEN <<>>
        ELSE IF suffix # <<>> /\ Len(suffix) < Len(b) /\ EndsWith(b, suffix)
             THEN SubSeq(b, 1, Len(b) - Len(suffix))
             ELSE b


(***************************************************************************)
(* Artifact resolver                                                       *)
(***************************************************************************)
ExtCls == <<".", "c", "l", "s">>

ExtTrigger == <<".", "t", "r", "i", "g", "g", "e", "r">>

ExtApex == <<".", "a", "p", "e", "x">>

ExtJs == <<".", "j", "s">>

ExtHtml == <<".", "h", "t", "m", "l">>

ExtCss == <<".", "c", "s", "s">>

LwcSegment == <<"l", "w", "c">>

\* isSalesforceFile: the eligibility test of the two commands.
isSalesforceFile(filePath) ==
    LET fileExtension == ToLowerCase(ExtName(filePath))
    IN  IF fileExtension \in {ExtJs, ExtHtml, ExtCss}
        THEN \/ Includes(filePath, <<"/">> \o LwcSegment \o <<"/">>)
             \/ Includes(filePath, <<"\\">> \o LwcSegment \o <<"\\">>)
        ELSE fileExtension \in {ExtCls, ExtTrigger, ExtApex, ExtJs, ExtHtml, ExtCss}

\* pathParts.findIndex(part => part === 'lwc'), 1-based; 0 for -1.
LwcIndex(pathParts) ==
    IF \E i \in 1..Len(pathParts) : pathParts[i] = LwcSegment
    THEN CHOOSE i \in 1..Len(pathParts) :
             /\ pathParts[i] = LwcSegment
             /\ \A j \in 1..(i - 1) : pathParts[j] # LwcSegment
    ELSE 0

\* getMetadataInfo: Null, or Some of the artifact's {type, name}.
getMetadataInfo(filePath) ==
    LET fileExt   == ToLowerCase(ExtName(filePath))
        fileName  == BaseName(filePath, fileExt)
        pathParts == Split(filePath)
        lwcIndex  == LwcIndex(pathParts)
    IN  IF fileExt = ExtCls THEN Some([type |-> "ApexClass", name |-> fileName])
        ELSE IF fileExt = ExtTrigger THEN Some([type |-> "ApexTrigger", name |-> fileName])
        ELSE IF fileExt = ExtApex THEN Some([type |-> "ApexPage", name |-> fileName])
        ELSE IF /\ fileExt \in {ExtHtml, ExtJs, ExtCss}
                /\ lwcIndex # 0
                /\ lwcIndex < Len(pathParts)
             THEN Some([type |-> "LightningComponentBundle",
                        name |-> pathParts[lwcIndex + 1]])
             ELSE Null

(***************************************************************************)
(* Sync watermark store: the record kept under RETRIEVE_MAP_KEY            *)
(***************************************************************************)
\* Date.prototype.toISOString, as the pair <<hours, minutes>> of the instant.
toISOString(date) == <<date \div 60, date % 60>>

\* new Date(isoString).
NewDate(iso) == iso[1] * 60 + iso[2]

\* getRetrieveMap: the stored record as a Map<string, Date>.
getRetrieveMap(stored) == [key \in DOMAIN stored |-> NewDate(stored[key])]

\* saveRetrieveMap: the record written back for a Map<string, Date>.
saveRetrieveMap(map) == [key \in DOMAIN map |-> toISOString(map[key])]

\* Map.prototype.set.
MapSet(map, key, value) ==
    [k \in DOMAIN map \cup {key} |-> IF k = key THEN value ELSE map[k]]

\* Map.prototype.delete.
MapDelete(map, key) == [k \in DOMAIN map \ {key} |-> map[k]]

\* Map.prototype.get: Null for undefined.
MapGet(map, key) == IF key \in DOMAIN map THEN Some(map[key]) ELSE Null

(***************************************************************************)
(* Conflict detector: the decision of checkForConflicts                    *)
(***************************************************************************)
Unknown == <<"U", "n", "k", "n", "o", "w", "n">>

ReasonModifiedAfterRetrieve == "File modified in org after last retrieve"

\* orgRecord.LastModifiedBy?.Name || 'Unknown'
ModifiedByName(orgRecord) ==
    IF orgRecord.LastModifiedBy = Null THEN Unknown
    ELSE OrElse(Val(orgRecord.LastModifiedBy).Name, Unknown)

\* orgRecord.LastModifiedBy?.Username || ''
ModifiedByUsername(orgRecord) ==
    IF orgRecord.LastModifiedBy = Null THEN <<>>
    ELSE Val(orgRecord.LastModifiedBy).Username

\* An identity match that compares the strings as they are, in their own
\* letter case.
isCurrentUserCaseSensitive(modifiedByName, modifiedByUsername, currentUser) ==
    \/ modifiedByUsername = currentUser
    \/ Includes(modifiedByName, currentUser)
    \/ Includes(currentUser, modifiedByUsername)

\* The identity match of the never-synced mode.
isCurrentUser(modifiedByName, modifiedByUsername, currentUser) ==
    \/ ToLowerCase(modifiedByUsername) = ToLowerCase(currentUser)
    \/ Includes(ToLowerCase(modifiedByName), ToLowerCase(currentUser))
    \/ Includes(ToLowerCase(currentUser), ToLowerCase(modifiedByUsername))

\* A comparison that also counts an equal instant as later.
ModifiedAfterOrAt(orgLastModified, lastRetrieved) == orgLastModified >= lastRetrieved

\* orgLastModified > lastRetrieved
ModifiedAfter(orgLastModified, lastRetrieved) == orgLastModified > lastRetrieved

\* A verdict that takes no account of the stored watermarks.
DecideConflictUnread(orgRecord, stored, fileName, currentUser) ==
    LET hasConflict ==
            ~isCurrentUser(ModifiedByName(orgRecord), ModifiedByUsername(orgRecord),
                           currentUser)
    IN  [hasConflict  |-> hasConflict,
         modifiedBy   |-> Some(ModifiedByName(orgRecord)),
         modifiedDate |-> Some(orgRecord.LastModifiedDate),
         reason       |-> IF hasConflict THEN Some(ReasonModifiedAfterRetrieve) ELSE Null]

\* The verdict of checkForConflicts once the remote record is in hand.
DecideConflict(orgRecord, stored, fileName, currentUser) ==
    LET modifiedByName     == ModifiedByName(orgRecord)
        modifiedByUsername == ModifiedByUsername(orgRecord)
        orgLastModified    == orgRecord.LastModifiedDate
        lastRetrieved      == MapGet(getRetrieveMap(stored), fileName)
    IN  IF lastRetrieved = Null
        THEN LET hasConflict ==
                     ~isCurrentUser(modifiedByName, modifiedByUsername, currentUser)
             IN  [hasConflict  |-> hasConflict,
                  modifiedBy   |-> Some(modifiedByName),
                  modifiedDate |-> Some(orgLastModified),
                  reason       |-> IF hasConflict
                                   THEN Some(ReasonModifiedAfterRetrieve)
                                   ELSE Null]
        ELSE LET hasConflict == ModifiedAfter(orgLastModified, Val(lastRetrieved))
             IN  [hasConflict  |-> hasConflict,
                  modifiedBy   |-> Some(modifiedByName),
                  modifiedDate |-> Some(orgLastModified),
                  reason       |-> IF hasConflict
                                   THEN Some(ReasonModifiedAfterRetrieve)
                                   ELSE Null]

\* return { hasConflict: false }: every early return and the catch block.
NoConflict ==
    [hasConflict |-> FALSE, modifiedBy |-> Null, modifiedDate |-> Null, reason |-> Null]


(***************************************************************************)
(* The configuration explored                                              *)
(***************************************************************************)
\* Connection objects created in one run.
MaxHandles == 2

\* The clock runs up to 10 * MaxTicks minutes while commands run one at a
\* time, and up to 10 * MaxSessionTicks minutes in the runs of the session
\* cache.
MaxTicks == 2

MaxSessionTicks == 4

\* The clock runs up to 10 * MaxResolveTicks minutes in the runs of the
\* resolution.
MaxResolveTicks == 3

\* The clock's steps, in minutes.
TickSteps == {10, 30}

\* 30 * 60 * 1000 ms, in minutes.
ConnectionTTL == 30

\* Concurrent command invocations.
Procs == {1, 2}

PathFooCls == <<"/", "w", "/", "F", "o", "o", ".", "c", "l", "s">>

PathAppJs ==
    <<"/", "w", "/", "l", "w", "c", "/", "b", "a", "r", "/", "a", "p", "p", ".", "j", "s">>

PathNotes == <<"/", "w", "/", "n", "o", "t", "e", "s", ".", "t", "x", "t">>

PathUtilJs == <<"/", "w", "/", "u", "t", "i", "l", ".", "j", "s">>

\* A trigger named like the class.
PathFooTrigger ==
    <<"/", "w", "/", "F", "o", "o", ".", "t", "r", "i", "g", "g", "e", "r">>

\* The files a command can be invoked on.
Files == {PathFooCls, PathFooTrigger, PathAppJs, PathNotes, PathUtilJs}

\* The artifacts of the files: the keys of the remote store.
OrgKeys == {Val(getMetadataInfo(f)) : f \in {g \in Files : getMetadataInfo(g) # Null}}

\* The login `sf org display` reports for the acting user.
UserBo == <<"B", "o">>

\* The acting user as the org records them, and a colleague.
ProfileBo == [Name |-> <<"B", "o", " ", "B">>, Username |-> <<"b", "o">>]

ProfileAl == [Name |-> <<"A", "l", " ", "A">>, Username |-> <<"a", "l">>]

\* LastModifiedBy of a record another party changed.
Modifiers == {Some(ProfileBo), Some(ProfileAl)}

\* A second member of the bundle "bar", and a file of its directory that is
\* no member.
PathAppHtml ==
    <<"/", "w", "/", "l", "w", "c", "/", "b", "a", "r", "/", "a", "p", "p", ".", "h", "t", "m", "l">>

PathAppXml ==
    <<"/", "w", "/", "l", "w", "c", "/", "b", "a", "r", "/", "a", "p", "p", ".", "x", "m", "l">>

\* The files of the workspace.
WorkspaceFiles == {PathFooCls, PathFooTrigger, PathAppJs, PathAppHtml, PathAppXml}

\* File contents.
SourceX == <<"x">>

SourceY == <<"y">>

\* A map without keys.
EmptyMap == [k \in {} |-> Null]

VARIABLES
    clock,              \* the current instant
    workspaceFolder,    \* vscode.workspace.workspaceFolders?.[0]
    cachedConnection,   \* the module's cachedConnection
    connectionExpiry,   \* the module's connectionExpiry
    handles,            \* Connection objects created so far
    dropped,            \* history: the newest handle clearConnectionCache dropped
    inSync,             \* history: the artifacts synced and not changed remotely since
    workspaceState,     \* context.workspaceState[RETRIEVE_MAP_KEY]
    org,                \* the remote store: key -> Null or Some(record)
    proc,               \* the command invocations in flight
    input,              \* the arguments of a decision computed on its own
    output,             \* and its result
    localFiles,         \* the workspace's files: path -> content
    tempFiles,          \* the files of .sfguard-temp: name -> content
    orgSource,          \* the remote store's content: key -> (FilePath -> Source)
    viewer              \* the sync-status command in flight

vars == <<clock, workspaceFolder, cachedConnection, connectionExpiry, handles,
          dropped, inSync, workspaceState, org, proc, input, output,
                   localFiles, tempFiles, orgSource, viewer>>

\* The sync-status command when it is not running.
ViewerIdle == [pc |-> "idle", retrieveMap |-> EmptyMap, entries |-> <<>>, selected |-> Null]

\* An invocation that is not running.
Idle ==
    [pc           |-> "idle",
     filePath     |-> Null,
     currentUser  |-> Null,
     now          |-> Null,
     conn         |-> Null,
     conflictInfo |-> Null,
     cause        |-> "none",    \* history: the path that produced conflictInfo
     lookedUp     |-> FALSE,     \* history: getSalesforceConnection looked the identity up
     stale        |-> FALSE,     \* history: the cache was cleared since conn was returned
     dropsSeen    |-> 0,         \* history: `dropped` when getSalesforceConnection was called
     orgRecord    |-> Null,      \* result.records[0] of the remote query
     lastRetrieved |-> Null,     \* history: the watermark the verdict was computed with
     synced       |-> FALSE,     \* history: the artifact was in sync when the verdict was computed
     caller       |-> "none",    \* the caller of getSalesforceConnection
     pending      |-> {},        \* relevantFiles not yet compared
     member       |-> Null,      \* the file retrieveOrgVersion is fetching
     filesWithChanges |-> {},    \* {localPath, orgPath} of the members that differ
     orgFilePath  |-> Null,      \* the temp file retrieveOrgVersion returned
     choice       |-> "none",    \* history: the last answer to the resolution dialog
     unfetched    |-> {},        \* history: the members retrieveOrgVersion returned null for
     seen         |-> {}]        \* history: the members' remote content when it was queried

Init ==
    /\ clock = 0
    /\ workspaceFolder = Some("w")
    /\ cachedConnection = Null
    /\ connectionExpiry = Null
    /\ handles = 0
    /\ dropped = 0
    /\ inSync = {}
    /\ workspaceState = [k \in {} |-> Null]
    /\ org = [k \in OrgKeys |-> Null]
    /\ proc = [p \in Procs |-> Idle]
    /\ input = Null
    /\ output = Null
    /\ localFiles = [f \in WorkspaceFiles |-> SourceX]
    /\ tempFiles = EmptyMap
    /\ orgSource = [k \in OrgKeys |-> EmptyMap]
    /\ viewer = ViewerIdle

(***************************************************************************)
(* Session cache                                                           *)
(***************************************************************************)
\* A clearing that leaves the cache as it is.
clearConnectionCacheKept == <<cachedConnection, connectionExpiry>>

\* A clearing that drops the handle and leaves the expiry.
clearConnectionCacheHandleOnly == <<Null, connectionExpiry>>

\* clearConnectionCache: the values of <<cachedConnection, connectionExpiry>>
\* it leaves.
clearConnectionCache == <<Null, Null>>

\* A validity test that still accepts the handle at its expiry.
ConnectionValidAtExpiry(now) ==
    /\ cachedConnection # Null
    /\ connectionExpiry # Null
    /\ now <= Val(connectionExpiry)

\* cachedConnection && connectionExpiry && now < connectionExpiry
ConnectionValid(now) ==
    /\ cachedConnection # Null
    /\ connectionExpiry # Null
    /\ now < Val(connectionExpiry)

\* new Date(now.getTime() + 30 * 60 * 1000)
ExpiryFor(now) == now + ConnectionTTL

\* The newest handle dropped, once the cache has been cleared.
Dropped == IF cachedConnection # Null THEN Val(cachedConnection) ELSE dropped

\* The invocations other than p, once the cache has been cleared: the handles
\* they hold are no longer the cache's.
Others(p, cleared) ==
    [q \in Procs \ {p} |->
        IF cleared /\ proc[q].conn # Null
        THEN [proc[q] EXCEPT !.stale = TRUE]
        ELSE proc[q]]

\* The step's effect: invocation p becomes r, the cache is cleared or not.
Step(p, r, cleared) ==
    /\ proc' = [q \in Procs |-> IF q = p THEN r ELSE Others(p, cleared)[q]]
    /\ IF cleared
       THEN /\ cachedConnection' = clearConnectionCache[1]
            /\ connectionExpiry' = clearConnectionCache[2]
            /\ dropped' = Dropped
       ELSE UNCHANGED <<cachedConnection, connectionExpiry, dropped>>


(***************************************************************************)
(* Local files and remote content                                          *)
(***************************************************************************)
\* Array.prototype.join.
RECURSIVE Join(_, _)
Join(parts, sep) ==
    IF parts = <<>> THEN <<>>
    ELSE IF Len(parts) = 1 THEN parts[1]
    ELSE parts[1] \o sep \o Join(Tail(parts), sep)

\* path.dirname.
DirName(p) == SubSeq(p, 1, LastIndexOf(p, "/") - 1)

\* path.join(dir, name).
PathJoin(dir, name) == dir \o <<"/">> \o name

\* pathParts.slice(0, lwcIndex + 2).join(path.sep): the bundle's directory.
BundlePath(filePath) ==
    LET pathParts == Split(filePath)
    IN  Join(SubSeq(pathParts, 1, LwcIndex(pathParts) + 1), <<"/">>)

\* fs.readdirSync(bundlePath): the names of the files of the directory.
readdirSync(bundlePath) ==
    {LastComponent(f) : f \in {g \in DOMAIN localFiles : DirName(g) = bundlePath}}

\* The local files one retrieve or deploy of filePath transfers: the file, or
\* every file of its bundle's directory.
TransferredFiles(filePath) ==
    IF Val(getMetadataInfo(filePath)).type = "LightningComponentBundle"
    THEN {PathJoin(BundlePath(filePath), n) : n \in readdirSync(BundlePath(filePath))}
    ELSE {filePath}

\* The FilePath of the remote row of a local file: for a file of a bundle its
\* path from the lwc directory on; the one row of an Apex artifact has none.
RowPath(filePath) ==
    LET pathParts == Split(filePath)
        lwcIndex  == LwcIndex(pathParts)
    IN  IF lwcIndex # 0 /\ lwcIndex < Len(pathParts)
        THEN Join(SubSeq(pathParts, lwcIndex, Len(pathParts)), <<"/">>)
        ELSE <<>>

\* The remote rows a deploy of filePath leaves: the content of the local files.
DeployedRows(filePath) ==
    LET files == TransferredFiles(filePath)
    IN  [r \in {RowPath(g) : g \in files} |->
            localFiles[CHOOSE g \in files : RowPath(g) = r]]

\* The local files once a retrieve of filePath has written the remote rows
\* it found.
RetrievedFiles(filePath) ==
    LET rows == orgSource[Val(getMetadataInfo(filePath))]
    IN  [g \in DOMAIN localFiles |->
            IF g \in TransferredFiles(filePath) /\ RowPath(g) \in DOMAIN rows
            THEN rows[RowPath(g)]
            ELSE localFiles[g]]

\* The workspace's files of an artifact.
FilesOf(key) ==
    {g \in WorkspaceFiles :
        \E f \in Files :
            /\ getMetadataInfo(f) = Some(key)
            /\ IF key.type = "LightningComponentBundle"
               THEN DirName(g) = BundlePath(f)
               ELSE g = f}

\* The artifacts of the workspace.
KeyFoo == Val(getMetadataInfo(PathFooCls))

KeyBar == Val(getMetadataInfo(PathAppJs))

\* The rows of the bundle "bar" when every file of it has the content "x".
BarRowsX == [r \in {RowPath(g) : g \in FilesOf(KeyBar)} |-> SourceX]

\* A key that keeps the extension: the file's name.
ResolveKeyFileName(localFilePath) == LastComponent(localFilePath)

\* The key the single-file resolution writes the watermark under:
\* fileBaseName.
ResolveKey(localFilePath) == BaseName(localFilePath, ExtName(localFilePath))

\* The paths the commands and the resolution meet.
PathsExplored == Files \cup WorkspaceFiles

\* What the functions of a path give on each path explored, computed once.
PathFacts ==
    [f \in PathsExplored |->
        [metadataInfo     |-> getMetadataInfo(f),
         isSalesforceFile |-> isSalesforceFile(f),
         rowPath          |-> RowPath(f),
         bundlePath       |-> BundlePath(f),
         fileBaseName     |-> ResolveKey(f)]]

(***************************************************************************)
(* checkForConflicts and getSalesforceConnection, one action per await     *)
(***************************************************************************)
\* A key taken from the file instead of the artifact: fileBaseName.
SyncKeyBaseName(filePath) == BaseName(filePath, ExtName(filePath))

\* A key that tells the types apart: the type before the name.
SyncKeyTyped(filePath) ==
    <<Val(PathFacts[filePath].metadataInfo).type>> \o Val(PathFacts[filePath].metadataInfo).name

\* The key the commands write the watermark under: metadataInfo.name.
SyncKey(filePath) == Val(PathFacts[filePath].metadataInfo).name

\* new Date() at the moment a watermark is written.
SyncInstant == clock

\* retrieveMap.set(key, new Date()); saveRetrieveMap(context, retrieveMap)
MarkSynced(stored, key) ==
    saveRetrieveMap(MapSet(getRetrieveMap(stored), key, SyncInstant))

\* A catch block that fails closed.
CatchVerdictConflict == [NoConflict EXCEPT !.hasConflict = TRUE]

\* What the catch block of checkForConflicts returns.
CatchVerdict == NoConflict

\* safeDeploy once checkForConflicts has returned info: the warning is shown
\* on a conflict, the deploy is started otherwise.
AfterCheck(r, info, cause) ==
    [r EXCEPT !.conflictInfo = Some(info),
              !.cause = cause,
              !.pc = IF info.hasConflict THEN "prompt" ELSE "deploying"]

\* An empty remote content counts as none: if (orgContent).
FetchedContent(orgContent) == orgContent # <<>>

\* Whether a bundle member's local content differs from the fetched one.
ContentDiffers(localContent, orgContent) == localContent # orgContent

\* Whether showDiffAndResolve takes the bundle branch for the file.
IsBundleFile(filePath) ==
    /\ PathFacts[filePath].metadataInfo # Null
    /\ Val(PathFacts[filePath].metadataInfo).type = "LightningComponentBundle"

\* A loop that is followed by the diffs whatever it found.
AfterLoopDiff(changes) == "diff"

\* showLWCDiffAndResolve after its loop: without changes the resolution is
\* resolved at once and safeDeploy goes on to the deploy; otherwise the diffs
\* are opened.
AfterLoop(changes) == IF changes = {} THEN "deploying" ELSE "diff"

\* showDiffAndResolve / showLWCDiffAndResolve once retrieveOrgVersion has
\* returned orgPath for r.member, the temp files being temp. A single file:
\* no org version ends the resolution unresolved, and the command with it;
\* otherwise the diff is opened. A bundle: the member is recorded when it was
\* fetched and differs; then the next member is fetched, or, after the last,
\* an empty result ends the resolution resolved and a non-empty one opens
\* the diffs.
AfterFetch(r, orgPath, temp) ==
    LET localPath == Val(r.member)
    IN  IF ~IsBundleFile(Val(r.filePath))
        THEN IF orgPath = Null
             THEN Idle
             ELSE [r EXCEPT !.member = Null, !.orgFilePath = orgPath, !.pc = "diff"]
        ELSE LET changes ==
                     IF /\ orgPath # Null
                        /\ ContentDiffers(localFiles[localPath], temp[Val(orgPath)])
                     THEN r.filesWithChanges
                              \cup {[localPath |-> localPath, orgPath |-> Val(orgPath)]}
                     ELSE r.filesWithChanges
                 rest == r.pending \ {localPath}
             IN  [r EXCEPT !.member = Null,
                           !.pending = rest,
                           !.filesWithChanges = changes,
                           !.unfetched = IF orgPath = Null THEN @ \cup {localPath} ELSE @,
                           !.pc = IF rest # {} THEN "fetchStart" ELSE AfterLoop(changes)]

\* The caller of getSalesforceConnection once it has returned c.
\* checkForConflicts: no verdict without a connection, the remote query
\* otherwise. retrieveOrgVersion: null without a connection, the remote query
\* otherwise.
AfterConnection(r, c) ==
    IF r.caller = "fetch"
    THEN IF c = Null
         THEN AfterFetch(r, Null, tempFiles)
         ELSE [r EXCEPT !.conn = c, !.pc = "fetchQuery"]
    ELSE IF c = Null
         THEN AfterCheck(r, NoConflict, "session")
         ELSE [r EXCEPT !.conn = c, !.pc = "query"]

\* getSalesforceConnection up to its first await: the cached handle is
\* returned while it is valid; otherwise the identity lookup is started,
\* which returns null at once when no workspace folder is open.
CallConnection(p, r) ==
    LET called == [r EXCEPT !.now = Some(clock), !.dropsSeen = dropped]
    IN  IF ConnectionValid(clock)
        THEN Step(p, AfterConnection(called, cachedConnection), FALSE)
        ELSE IF workspaceFolder = Null
             THEN Step(p, AfterConnection([called EXCEPT !.lookedUp = TRUE], Null), TRUE)
             ELSE Step(p, [called EXCEPT !.lookedUp = TRUE, !.pc = "connUser"], FALSE)

\* The safe-deploy command is invoked on a file: the eligibility tests, then
\* checkForConflicts up to its first await.
StartSafeDeploy(p, f) ==
    /\ proc[p].pc = "idle"
    /\ IF ~PathFacts[f].isSalesforceFile \/ PathFacts[f].metadataInfo = Null
       THEN Step(p, Idle, FALSE)
       ELSE IF workspaceFolder = Null
            THEN Step(p, AfterCheck([Idle EXCEPT !.filePath = Some(f)],
                                    NoConflict, "workspace"), FALSE)
            ELSE Step(p, [Idle EXCEPT !.filePath = Some(f), !.pc = "checkUser"], FALSE)
    /\ UNCHANGED <<clock, workspaceFolder, handles, inSync, workspaceState, org, input, output,
                   localFiles, tempFiles, orgSource, viewer>>

\* getCurrentSalesforceUsername returns to checkForConflicts: null, or the
\* acting user's login, with which getSalesforceConnection is called.
CheckUserReturns(p, user) ==
    /\ proc[p].pc = "checkUser"
    /\ IF user = Null
       THEN Step(p, AfterCheck(proc[p], NoConflict, "identity"), FALSE)
       ELSE CallConnection(p, [proc[p] EXCEPT !.currentUser = user])
    /\ UNCHANGED <<clock, workspaceFolder, handles, inSync, workspaceState, org, input, output,
                   localFiles, tempFiles, orgSource, viewer>>

\* getCurrentSalesforceUsername returns to getSalesforceConnection.
ConnUserReturns(p, user) ==
    /\ proc[p].pc = "connUser"
    /\ IF user = Null
       THEN Step(p, AfterConnection(proc[p], Null), TRUE)
       ELSE Step(p, [proc[p] EXCEPT !.pc = "connAuth"], FALSE)
    /\ UNCHANGED <<clock, workspaceFolder, handles, inSync, workspaceState, org, input, output,
                   localFiles, tempFiles, orgSource, viewer>>

\* AuthInfo.create returns or throws.
AuthInfoReturns(p, ok) ==
    /\ proc[p].pc = "connAuth"
    /\ IF ok
       THEN Step(p, [proc[p] EXCEPT !.pc = "connCreate"], FALSE)
       ELSE Step(p, AfterConnection(proc[p], Null), TRUE)
    /\ UNCHANGED <<clock, workspaceFolder, handles, inSync, workspaceState, org, input, output,
                   localFiles, tempFiles, orgSource, viewer>>

\* Connection.create throws: the catch block clears the cache.
ConnectionCreateFails(p) ==
    /\ proc[p].pc = "connCreate"
    /\ Step(p, AfterConnection(proc[p], Null), TRUE)
    /\ UNCHANGED <<clock, workspaceFolder, handles, inSync, workspaceState, org, input, output,
                   localFiles, tempFiles, orgSource, viewer>>

\* Connection.create returns a new Connection: it is cached with the expiry
\* computed from the call's own `now`, and returned.
ConnectionCreated(p) ==
    /\ proc[p].pc = "connCreate"
    /\ handles < MaxHandles
    /\ handles' = handles + 1
    /\ cachedConnection' = Some(handles + 1)
    /\ connectionExpiry' = Some(ExpiryFor(Val(proc[p].now)))
    /\ proc' = [proc EXCEPT ![p] = AfterConnection(proc[p], Some(handles + 1))]
    /\ UNCHANGED <<clock, workspaceFolder, dropped, inSync, workspaceState, org, input, output,
                   localFiles, tempFiles, orgSource, viewer>>

\* The remote query throws: the catch block of checkForConflicts.
QueryFails(p) ==
    /\ proc[p].pc = "query"
    /\ Step(p, AfterCheck(proc[p], CatchVerdict, "query"), FALSE)
    /\ UNCHANGED <<clock, workspaceFolder, handles, inSync, workspaceState, org, input, output,
                   localFiles, tempFiles, orgSource, viewer>>

\* The remote query returns: no record, or the record the verdict is
\* computed from together with the watermark map as it is now.
QueryReturns(p) ==
    /\ proc[p].pc = "query"
    /\ LET metadataInfo == Val(PathFacts[Val(proc[p].filePath)].metadataInfo)
           result       == org[metadataInfo]
       IN  IF result = Null
           THEN Step(p, AfterCheck(proc[p], NoConflict, "record"), FALSE)
           ELSE Step(p, AfterCheck([proc[p] EXCEPT
                                      !.orgRecord = result,
                                      !.lastRetrieved =
                                          MapGet(getRetrieveMap(workspaceState),
                                                 metadataInfo.name),
                                      !.synced = metadataInfo \in inSync],
                                   DecideConflict(Val(result), workspaceState,
                                                  metadataInfo.name,
                                                  Val(proc[p].currentUser)),
                                   "decided"), FALSE)
    /\ UNCHANGED <<clock, workspaceFolder, handles, inSync, workspaceState, org, input, output,
                   localFiles, tempFiles, orgSource, viewer>>


(***************************************************************************)
(* The commands                                                            *)
(***************************************************************************)
\* The user answers the conflict warning of safeDeploy.
WarningDismissed(p) ==
    /\ proc[p].pc = "prompt"
    /\ Step(p, Idle, FALSE)
    /\ UNCHANGED <<clock, workspaceFolder, handles, inSync, workspaceState, org, input, output,
                   localFiles, tempFiles, orgSource, viewer>>

\* 'Retrieve Now': the tracked-retrieve command is run on the same file.
ChooseRetrieveNow(p) ==
    /\ proc[p].pc = "prompt"
    /\ Step(p, [proc[p] EXCEPT !.pc = "retrieving"], FALSE)
    /\ UNCHANGED <<clock, workspaceFolder, handles, inSync, workspaceState, org, input, output,
                   localFiles, tempFiles, orgSource, viewer>>

\* 'Deploy Anyway'.
ChooseDeployAnyway(p) ==
    /\ proc[p].pc = "prompt"
    /\ Step(p, [proc[p] EXCEPT !.pc = "deploying"], FALSE)
    /\ UNCHANGED <<clock, workspaceFolder, handles, inSync, workspaceState, org, input, output,
                   localFiles, tempFiles, orgSource, viewer>>

\* A deploy that changes the org's content and leaves the record's
\* LastModifiedDate and LastModifiedBy as they were.
DeployAppliedUnstamped(p) ==
    /\ proc[p].pc = "deploying"
    /\ LET key == Val(PathFacts[Val(proc[p].filePath)].metadataInfo)
       IN  /\ orgSource' = [orgSource EXCEPT ![key] = DeployedRows(Val(proc[p].filePath))]
           /\ inSync' = inSync \ {key}
    /\ Step(p, [proc[p] EXCEPT !.pc = "deployed"], FALSE)
    /\ UNCHANGED <<clock, workspaceFolder, handles, workspaceState, org, input, output,
                   localFiles, tempFiles, viewer>>

\* sf.deploy.source.path takes effect in the org: the artifact's record is
\* now last modified by the acting user, at this instant.
DeployApplied(p) ==
    /\ proc[p].pc = "deploying"
    /\ LET key == Val(PathFacts[Val(proc[p].filePath)].metadataInfo)
       IN  /\ org' = [org EXCEPT ![key] =
                        Some([LastModifiedDate |-> clock,
                              LastModifiedBy   |-> Some(ProfileBo)])]
           /\ orgSource' = [orgSource EXCEPT ![key] = DeployedRows(Val(proc[p].filePath))]
           /\ inSync' = inSync \ {key}
    /\ Step(p, [proc[p] EXCEPT !.pc = "deployed"], FALSE)
    /\ UNCHANGED <<clock, workspaceFolder, handles, workspaceState, input, output,
                   localFiles, tempFiles, viewer>>

\* sf.deploy.source.path throws: the error is shown, nothing is recorded.
DeployFails(p) ==
    /\ proc[p].pc = "deploying"
    /\ Step(p, Idle, FALSE)
    /\ UNCHANGED <<clock, workspaceFolder, handles, inSync, workspaceState, org, input, output,
                   localFiles, tempFiles, orgSource, viewer>>

\* sf.deploy.source.path returns: the watermark is written.
DeployReturns(p) ==
    /\ proc[p].pc = "deployed"
    /\ LET key == SyncKey(Val(proc[p].filePath))
       IN  /\ workspaceState' = MarkSynced(workspaceState, key)
           /\ inSync' = inSync \cup {Val(PathFacts[Val(proc[p].filePath)].metadataInfo)}
    /\ Step(p, Idle, FALSE)
    /\ UNCHANGED <<clock, workspaceFolder, handles, org, input, output,
                   localFiles, tempFiles, orgSource, viewer>>

\* The tracked-retrieve command is invoked on a file.
StartRetrieve(p, f) ==
    /\ proc[p].pc = "idle"
    /\ IF ~PathFacts[f].isSalesforceFile \/ PathFacts[f].metadataInfo = Null
       THEN Step(p, Idle, FALSE)
       ELSE Step(p, [Idle EXCEPT !.filePath = Some(f), !.pc = "retrieving"], FALSE)
    /\ UNCHANGED <<clock, workspaceFolder, handles, inSync, workspaceState, org, input, output,
                   localFiles, tempFiles, orgSource, viewer>>

\* sf.retrieve.source.path throws.
RetrieveFails(p) ==
    /\ proc[p].pc = "retrieving"
    /\ Step(p, Idle, FALSE)
    /\ UNCHANGED <<clock, workspaceFolder, handles, inSync, workspaceState, org, input, output,
                   localFiles, tempFiles, orgSource, viewer>>

\* sf.retrieve.source.path returns, the local files hold the remote content:
\* the watermark is written.
RetrieveReturns(p) ==
    /\ proc[p].pc = "retrieving"
    /\ LET key == SyncKey(Val(proc[p].filePath))
       IN  /\ workspaceState' = MarkSynced(workspaceState, key)
           /\ inSync' = inSync \cup {Val(PathFacts[Val(proc[p].filePath)].metadataInfo)}
    /\ localFiles' = RetrievedFiles(Val(proc[p].filePath))
    /\ Step(p, Idle, FALSE)
    /\ UNCHANGED <<clock, workspaceFolder, handles, org, input, output,
                   tempFiles, orgSource, viewer>>

(***************************************************************************)
(* Resolution: showDiffAndResolve, showLWCDiffAndResolve, retrieveOrgVersion*)
(***************************************************************************)
\* path.join(workspaceFolder || '', '.sfguard-temp')
TempDir ==
    LET name == <<".", "s", "f", "g", "u", "a", "r", "d", "-", "t", "e", "m", "p">>
    IN  IF workspaceFolder = Null THEN name ELSE PathJoin(<<"/", "w">>, name)

\* tempFilePath of retrieveOrgVersion.
TempFilePath(filePath) ==
    LET metadataInfo == Val(PathFacts[filePath].metadataInfo)
        fileExt      == ToLowerCase(ExtName(filePath))
        fileBaseName == BaseName(filePath, fileExt)
    IN  IF metadataInfo.type = "LightningComponentBundle"
        THEN PathJoin(TempDir, metadataInfo.name \o <<"_">> \o fileBaseName
                                   \o <<"_", "O", "R", "G">> \o fileExt)
        ELSE PathJoin(TempDir, metadataInfo.name \o <<"_", "O", "R", "G">> \o fileExt)

\* FilePath LIKE '%<pattern>': a suffix match that ignores letter case.
Like(rowPath, pattern) == EndsWith(ToLowerCase(rowPath), ToLowerCase(pattern))

\* The rows the query of retrieveOrgVersion selects for the file.
SelectedRows(filePath) ==
    LET metadataInfo == Val(PathFacts[filePath].metadataInfo)
        fileExt      == ToLowerCase(ExtName(filePath))
        fileBaseName == BaseName(filePath, fileExt)
        rows         == orgSource[metadataInfo]
    IN  IF metadataInfo.type = "LightningComponentBundle"
        THEN {r \in DOMAIN rows : Like(r, fileBaseName \o fileExt)}
        ELSE DOMAIN rows

\* fs.writeFileSync.
writeFileSync(files, path, content) ==
    [f \in DOMAIN files \cup {path} |-> IF f = path THEN content ELSE files[f]]

\* relevantFiles of showLWCDiffAndResolve, as local paths: the files of the
\* bundle's directory with extension .html, .js or .css.
RelevantFiles(localFilePath) ==
    LET bundlePath == PathFacts[localFilePath].bundlePath
    IN  {PathJoin(bundlePath, file) :
            file \in {n \in readdirSync(bundlePath) :
                        ToLowerCase(ExtName(n)) \in {ExtHtml, ExtJs, ExtCss}}}

\* 'Resolve Conflict & Deploy': showDiffAndResolve up to its first await. A
\* bundle without workspace folder is unresolved at once.
ChooseResolve(p) ==
    /\ proc[p].pc = "prompt"
    /\ LET f == Val(proc[p].filePath)
           r == [proc[p] EXCEPT !.caller = "fetch", !.pc = "fetchStart"]
       IN  IF IsBundleFile(f)
           THEN IF workspaceFolder = Null
                THEN Step(p, Idle, FALSE)
                ELSE Step(p, [r EXCEPT !.pending = RelevantFiles(f)], FALSE)
           ELSE Step(p, [r EXCEPT !.pending = {f}], FALSE)
    /\ UNCHANGED <<clock, workspaceFolder, handles, inSync, workspaceState, org, input, output,
                   localFiles, tempFiles, orgSource, viewer>>

\* retrieveOrgVersion is called on one of the files to compare, and calls
\* getSalesforceConnection.
FetchStart(p, localPath) ==
    /\ proc[p].pc = "fetchStart"
    /\ localPath \in proc[p].pending
    /\ CallConnection(p, [proc[p] EXCEPT !.member = Some(localPath), !.conn = Null])
    /\ UNCHANGED <<clock, workspaceFolder, handles, inSync, workspaceState, org, input, output,
                   localFiles, tempFiles, orgSource, viewer>>

\* The query of retrieveOrgVersion throws: it returns null.
FetchQueryFails(p) ==
    /\ proc[p].pc = "fetchQuery"
    /\ Step(p, AfterFetch(proc[p], Null, tempFiles), FALSE)
    /\ UNCHANGED <<clock, workspaceFolder, handles, inSync, workspaceState, org, input, output,
                   localFiles, tempFiles, orgSource, viewer>>

\* The member's own remote content, as the query finds it: Null without a
\* row of its FilePath.
Seen(localPath) ==
    LET rows == orgSource[Val(PathFacts[localPath].metadataInfo)]
    IN  [localPath |-> localPath,
         content   |-> IF PathFacts[localPath].rowPath \in DOMAIN rows
                       THEN Some(rows[PathFacts[localPath].rowPath])
                       ELSE Null]

\* The query of retrieveOrgVersion returns no row, or a row without content:
\* it returns null.
FetchQueryEmpty(p) ==
    /\ proc[p].pc = "fetchQuery"
    /\ LET rows == orgSource[Val(PathFacts[Val(proc[p].member)].metadataInfo)]
           sel  == SelectedRows(Val(proc[p].member))
       IN  sel = {} \/ \E row \in sel : ~FetchedContent(rows[row])
    /\ Step(p, AfterFetch([proc[p] EXCEPT !.seen = @ \cup {Seen(Val(proc[p].member))}],
                          Null, tempFiles), FALSE)
    /\ UNCHANGED <<clock, workspaceFolder, handles, inSync, workspaceState, org, input, output,
                   localFiles, tempFiles, orgSource, viewer>>

\* The query of retrieveOrgVersion returns rows, the first of them with
\* content: the content is written to the temp file, whose path it returns.
FetchQueryReturns(p) ==
    /\ proc[p].pc = "fetchQuery"
    /\ LET localPath == Val(proc[p].member)
           rows      == orgSource[Val(PathFacts[localPath].metadataInfo)]
       IN  \E row \in SelectedRows(localPath) :
               /\ FetchedContent(rows[row])
               /\ LET temp == writeFileSync(tempFiles, TempFilePath(localPath), rows[row])
                  IN  /\ tempFiles' = temp
                      /\ Step(p, AfterFetch([proc[p] EXCEPT !.seen = @ \cup {Seen(localPath)}],
                                            Some(TempFilePath(localPath)), temp),
                              FALSE)
    /\ UNCHANGED <<clock, workspaceFolder, handles, inSync, workspaceState, org, input, output,
                   localFiles, orgSource, viewer>>

\* vscode.diff throws: the resolution is unresolved.
DiffFails(p) ==
    /\ proc[p].pc = "diff"
    /\ Step(p, Idle, FALSE)
    /\ UNCHANGED <<clock, workspaceFolder, handles, inSync, workspaceState, org, input, output,
                   localFiles, tempFiles, orgSource, viewer>>

\* The diff editors are open: the resolution dialog is shown.
DiffShown(p) ==
    /\ proc[p].pc = "diff"
    /\ Step(p, [proc[p] EXCEPT !.pc = "resolvePrompt"], FALSE)
    /\ UNCHANGED <<clock, workspaceFolder, handles, inSync, workspaceState, org, input, output,
                   localFiles, tempFiles, orgSource, viewer>>
\* The local files once every file of `changes` has the content of its temp
\* file: fs.writeFileSync(localPath, fs.readFileSync(orgPath)).
AdoptedFiles(changes) ==
    [g \in DOMAIN localFiles |->
        IF \E c \in changes : c.localPath = g
        THEN tempFiles[(CHOOSE c \in changes : c.localPath = g).orgPath]
        ELSE localFiles[g]]

\* A key taken from the file for a bundle as well.
ResolutionKeyOfFile(filePath) == PathFacts[filePath].fileBaseName

\* The key a resolution of the file writes the watermark under: the bundle's
\* name, or the file's base name.
ResolutionKey(filePath) ==
    IF IsBundleFile(filePath)
    THEN Val(PathFacts[filePath].metadataInfo).name
    ELSE PathFacts[filePath].fileBaseName

\* An overwrite of the open file only.
OverwrittenOpenFile(r) ==
    IF IsBundleFile(Val(r.filePath))
    THEN {c \in r.filesWithChanges : c.localPath = Val(r.filePath)}
    ELSE {[localPath |-> Val(r.filePath), orgPath |-> Val(r.orgFilePath)]}

\* What the resolution overwrites on 'Use Org Version': the bundle's members
\* that differ, or the file.
Overwritten(r) ==
    IF IsBundleFile(Val(r.filePath))
    THEN r.filesWithChanges
    ELSE {[localPath |-> Val(r.filePath), orgPath |-> Val(r.orgFilePath)]}

\* 'Use Org Version' / 'Use Org Version (All)': the local files are
\* overwritten, the watermark is written, the resolution is resolved and
\* safeDeploy goes on to the deploy.
UseOrgVersion(p) ==
    /\ proc[p].pc = "resolvePrompt"
    /\ localFiles' = AdoptedFiles(Overwritten(proc[p]))
    /\ workspaceState' = MarkSynced(workspaceState, ResolutionKey(Val(proc[p].filePath)))
    /\ Step(p, [proc[p] EXCEPT !.choice = "org", !.pc = "deploying"], FALSE)
    /\ UNCHANGED <<clock, workspaceFolder, handles, inSync, org, input, output,
                   tempFiles, orgSource, viewer>>

\* 'Keep Local Version' / 'Keep Local (All)': the resolution is resolved.
KeepLocalVersion(p) ==
    /\ proc[p].pc = "resolvePrompt"
    /\ Step(p, [proc[p] EXCEPT !.choice = "local", !.pc = "deploying"], FALSE)
    /\ UNCHANGED <<clock, workspaceFolder, handles, inSync, workspaceState, org, input, output,
                   localFiles, tempFiles, orgSource, viewer>>

\* 'Merge Manually': the watermark is written, the resolution is unresolved
\* and safeDeploy returns.
MergeManually(p) ==
    /\ proc[p].pc = "resolvePrompt"
    /\ workspaceState' = MarkSynced(workspaceState, ResolutionKey(Val(proc[p].filePath)))
    /\ Step(p, [Idle EXCEPT !.choice = "manual"], FALSE)
    /\ UNCHANGED <<clock, workspaceFolder, handles, inSync, org, input, output,
                   localFiles, tempFiles, orgSource, viewer>>

\* A dismissal that records a sync like 'Merge Manually'.
ResolutionDismissedSynced(p) ==
    /\ proc[p].pc = "resolvePrompt"
    /\ workspaceState' = MarkSynced(workspaceState, ResolutionKey(Val(proc[p].filePath)))
    /\ Step(p, [Idle EXCEPT !.choice = "dismissed"], FALSE)
    /\ UNCHANGED <<clock, workspaceFolder, handles, inSync, org, input, output,
                   localFiles, tempFiles, orgSource, viewer>>

\* The resolution dialog is dismissed: unresolved.
ResolutionDismissed(p) ==
    /\ proc[p].pc = "resolvePrompt"
    /\ Step(p, [Idle EXCEPT !.choice = "dismissed"], FALSE)
    /\ UNCHANGED <<clock, workspaceFolder, handles, inSync, workspaceState, org, input, output,
                   localFiles, tempFiles, orgSource, viewer>>

(***************************************************************************)
(* viewSyncStatus                                                          *)
(***************************************************************************)
\* A listing left in the order of the map.
SortByRecencyUnsorted(entries) == entries

\* entries.sort((a, b) => b.timestamp.getTime() - a.timestamp.getTime()): the
\* most recent first, equal timestamps in the order they had.
RECURSIVE SortByRecency(_)
SortByRecency(entries) ==
    IF entries = <<>> THEN <<>>
    ELSE LET i == CHOOSE k \in 1..Len(entries) :
                     /\ \A j \in 1..Len(entries) :
                            entries[j].timestamp <= entries[k].timestamp
                     /\ \A j \in 1..(k - 1) :
                            entries[j].timestamp < entries[k].timestamp
         IN  <<entries[i]>> \o SortByRecency(SubSeq(entries, 1, i - 1)
                                               \o SubSeq(entries, i + 1, Len(entries)))

\* The command is invoked: the map is read; unless it is empty, its entries
\* are listed, in the order the map gives them and then sorted, and the quick
\* pick is shown.
ViewSyncStatus ==
    /\ viewer.pc = "idle"
    /\ LET retrieveMap == getRetrieveMap(workspaceState)
           n           == Cardinality(DOMAIN retrieveMap)
       IN  IF n = 0
           THEN viewer' = ViewerIdle
           ELSE \E order \in {o \in [1..n -> DOMAIN retrieveMap] :
                                  \A i, j \in 1..n : i # j => o[i] # o[j]} :
                    viewer' = [ViewerIdle EXCEPT
                                  !.pc = "pick",
                                  !.retrieveMap = retrieveMap,
                                  !.entries =
                                      SortByRecency([i \in 1..n |->
                                          [fileName  |-> order[i],
                                           timestamp |-> retrieveMap[order[i]]]])]
    /\ UNCHANGED <<clock, workspaceFolder, cachedConnection, connectionExpiry, handles,
                   dropped, inSync, workspaceState, org, proc, input, output,
                   localFiles, tempFiles, orgSource>>

\* The quick pick is answered: dismissed, 'Clear All Tracked Files', or one
\* of the entries.
ViewPick(selected) ==
    /\ viewer.pc = "pick"
    /\ viewer' = IF selected = Null THEN ViewerIdle
                  ELSE IF selected = Some(<<>>)
                       THEN [viewer EXCEPT !.pc = "confirmAll"]
                       ELSE [viewer EXCEPT !.pc = "confirm", !.selected = selected]
    /\ UNCHANGED <<clock, workspaceFolder, cachedConnection, connectionExpiry, handles,
                   dropped, inSync, workspaceState, org, proc, input, output,
                   localFiles, tempFiles, orgSource>>

\* The 'Clear All' warning is answered.
ViewConfirmAll(confirm) ==
    /\ viewer.pc = "confirmAll"
    /\ viewer' = ViewerIdle
    /\ workspaceState' = IF confirm THEN EmptyMap ELSE workspaceState
    /\ UNCHANGED <<clock, workspaceFolder, cachedConnection, connectionExpiry, handles,
                   dropped, inSync, org, proc, input, output,
                   localFiles, tempFiles, orgSource>>

\* The 'Clear' warning of one entry is answered: on 'Clear' the entry is
\* deleted from the map read when the command was invoked, and that map is
\* saved.
ViewConfirm(confirm) ==
    /\ viewer.pc = "confirm"
    /\ viewer' = ViewerIdle
    /\ workspaceState' =
           IF confirm
           THEN saveRetrieveMap(MapDelete(viewer.retrieveMap, Val(viewer.selected)))
           ELSE workspaceState
    /\ UNCHANGED <<clock, workspaceFolder, cachedConnection, connectionExpiry, handles,
                   dropped, inSync, org, proc, input, output,
                   localFiles, tempFiles, orgSource>>

(***************************************************************************)
(* The environment                                                         *)
(***************************************************************************)
\* onDidChangeWorkspaceFolders: the cache is cleared.
clearCacheOnWorkspaceChange(folder) ==
    /\ workspaceFolder' = folder
    /\ proc' = [q \in Procs |->
                  IF proc[q].conn # Null THEN [proc[q] EXCEPT !.stale = TRUE] ELSE proc[q]]
    /\ cachedConnection' = clearConnectionCache[1]
    /\ connectionExpiry' = clearConnectionCache[2]
    /\ dropped' = Dropped
    /\ UNCHANGED <<clock, handles, inSync, workspaceState, org, input, output,
                   localFiles, tempFiles, orgSource, viewer>>

\* deactivate: the extension is shut down while invocations may still be
\* suspended.
deactivate ==
    /\ proc' = [q \in Procs |->
                  IF proc[q].conn # Null THEN [proc[q] EXCEPT !.stale = TRUE] ELSE proc[q]]
    /\ cachedConnection' = clearConnectionCache[1]
    /\ connectionExpiry' = clearConnectionCache[2]
    /\ dropped' = Dropped
    /\ UNCHANGED <<clock, workspaceFolder, handles, inSync, workspaceState, org, input, output,
                   localFiles, tempFiles, orgSource, viewer>>

\* Another party changes an artifact in the org: its rows are now `rows`.
RemoteModify(key, by, rows) ==
    /\ org' = [org EXCEPT ![key] =
                 Some([LastModifiedDate |-> clock, LastModifiedBy |-> by])]
    /\ orgSource' = [orgSource EXCEPT ![key] = rows]
    /\ inSync' = inSync \ {key}
    /\ UNCHANGED <<clock, workspaceFolder, cachedConnection, connectionExpiry, handles,
                   dropped, workspaceState, proc, input, output,
                   localFiles, tempFiles, viewer>>

\* Time passes.
Tick(d, limit) ==
    /\ clock + d <= 10 * limit
    /\ clock' = clock + d
    /\ UNCHANGED <<workspaceFolder, cachedConnection, connectionExpiry, handles,
                   dropped, inSync, workspaceState, org, proc, input, output,
                   localFiles, tempFiles, orgSource, viewer>>

\* The files the commands are invoked on while they run one at a time: a
\* member of the bundle "bar" and two files that are no artifacts.
FilesOpened == {PathAppJs, PathNotes, PathUtilJs}

\* One command at a time, in an org other parties change.
Next ==
    \/ \E f \in FilesOpened : StartSafeDeploy(1, f)
    \/ \E user \in {Null, Some(UserBo)} : CheckUserReturns(1, user)
    \/ \E user \in {Null, Some(UserBo)} : ConnUserReturns(1, user)
    \/ \E ok \in BOOLEAN : AuthInfoReturns(1, ok)
    \/ ConnectionCreateFails(1)
    \/ ConnectionCreated(1)
    \/ QueryFails(1)
    \/ QueryReturns(1)
    \/ WarningDismissed(1)
    \/ ChooseRetrieveNow(1)
    \/ ChooseDeployAnyway(1)
    \/ DeployApplied(1)
    \/ DeployFails(1)
    \/ DeployReturns(1)
    \/ \E f \in FilesOpened : StartRetrieve(1, f)
    \/ RetrieveFails(1)
    \/ RetrieveReturns(1)
    \/ \E folder \in {Null, Some("w")} : clearCacheOnWorkspaceChange(folder)
    \/ \E by \in Modifiers :
          RemoteModify(KeyBar, by, BarRowsX)
    \/ Tick(10, MaxTicks)

Spec == Init /\ [][Next]_vars

\* Concurrent safe-deploy invocations on one file, as far as the session
\* cache is concerned: the org holds no record and refuses the deploy.
NextSession ==
    \/ \E p \in Procs : StartSafeDeploy(p, PathFooCls)
    \/ \E p \in Procs, user \in {Null, Some(UserBo)} : CheckUserReturns(p, user)
    \/ \E p \in Procs, user \in {Null, Some(UserBo)} : ConnUserReturns(p, user)
    \/ \E p \in Procs, ok \in BOOLEAN : AuthInfoReturns(p, ok)
    \/ \E p \in Procs : ConnectionCreateFails(p)
    \/ \E p \in Procs : ConnectionCreated(p)
    \/ \E p \in Procs : QueryFails(p)
    \/ \E p \in Procs : QueryReturns(p)
    \/ \E p \in Procs : DeployFails(p)
    \/ \E folder \in {Null, Some("w")} : clearCacheOnWorkspaceChange(folder)
    \/ deactivate
    \/ \E d \in TickSteps : Tick(d, MaxSessionTicks)

SpecSession == Init /\ [][NextSession]_vars


\* The answer 'Clear All Tracked Files' to the quick pick.
ClearAllItem == Some(<<>>)

\* The files the commands are invoked on.
FilesResolved == {PathFooCls, PathAppJs, PathAppHtml}

\* A run of the resolution works on one file, chosen at its start.
InitResolve ==
    /\ clock = 0
    /\ workspaceFolder = Some("w")
    /\ cachedConnection = Null
    /\ connectionExpiry = Null
    /\ handles = 0
    /\ dropped = 0
    /\ inSync = {}
    /\ workspaceState = [k \in {} |-> Null]
    /\ org = [k \in OrgKeys |-> Null]
    /\ proc = [p \in Procs |-> Idle]
    /\ input \in {Some(f) : f \in FilesResolved}
    /\ output = Null
    /\ localFiles = [f \in WorkspaceFiles |-> SourceX]
    /\ tempFiles = EmptyMap
    /\ orgSource = [k \in OrgKeys |-> EmptyMap]
    /\ viewer = ViewerIdle

\* The artifacts of the files.
KeyOf == [f \in FilesResolved |-> Val(PathFacts[f].metadataInfo)]

\* The FilePath of a member a colleague adds to the bundle "bar" in the org:
\* myapp.js.
RowMyAppJs ==
    <<"l", "w", "c", "/", "b", "a", "r", "/", "m", "y", "a", "p", "p", ".", "j", "s">>

\* The rows a colleague leaves in the org for the artifact of a file. The
\* class: its body is "x", "y" or empty. The bundle: every file "x"; app.js
\* "y"; app.js empty; app.js and app.html "y"; every file "x" and a new
\* member myapp.js "y".
RowsTried ==
    LET js   == PathFacts[PathAppJs].rowPath
        html == PathFacts[PathAppHtml].rowPath
    IN  [f \in FilesResolved |->
            IF f = PathFooCls
            THEN {[r \in {PathFacts[f].rowPath} |-> c] : c \in {SourceX, SourceY, <<>>}}
            ELSE {BarRowsX,
                  [BarRowsX EXCEPT ![js] = SourceY],
                  [BarRowsX EXCEPT ![js] = <<>>],
                  [BarRowsX EXCEPT ![js] = SourceY, ![html] = SourceY],
                  [r \in DOMAIN BarRowsX \cup {RowMyAppJs} |->
                      IF r = RowMyAppJs THEN SourceY ELSE SourceX]}]

\* Safe deploys of the run's file, one at a time, in an org a colleague
\* changes.
NextResolve ==
    \/ StartSafeDeploy(1, Val(input))
    \/ \E user \in {Null, Some(UserBo)} : CheckUserReturns(1, user)
    \/ \E user \in {Null, Some(UserBo)} : ConnUserReturns(1, user)
    \/ \E ok \in BOOLEAN : AuthInfoReturns(1, ok)
    \/ ConnectionCreateFails(1)
    \/ ConnectionCreated(1)
    \/ QueryFails(1)
    \/ QueryReturns(1)
    \/ WarningDismissed(1)
    \/ ChooseDeployAnyway(1)
    \/ ChooseResolve(1)
    \/ \E localPath \in WorkspaceFiles : FetchStart(1, localPath)
    \/ FetchQueryFails(1)
    \/ FetchQueryEmpty(1)
    \/ FetchQueryReturns(1)
    \/ DiffFails(1)
    \/ DiffShown(1)
    \/ UseOrgVersion(1)
    \/ KeepLocalVersion(1)
    \/ MergeManually(1)
    \/ ResolutionDismissed(1)
    \/ DeployApplied(1)
    \/ DeployFails(1)
    \/ DeployReturns(1)
    \/ \E rows \in RowsTried[Val(input)] :
          RemoteModify(KeyOf[Val(input)], Some(ProfileAl), rows)
    \/ Tick(ConnectionTTL, MaxResolveTicks)

SpecResolve == InitResolve /\ [][NextResolve]_vars

\* The files the commands are invoked on while the sync status is viewed:
\* one of each artifact.
StoreFiles == {PathFooCls, PathAppJs}

\* The content a colleague leaves in the org for the class: "y".
StoreRows == [r \in {PathFacts[PathFooCls].rowPath} |-> SourceY]

\* Retrieves of the two artifacts and safe deploys of the class, one at a
\* time, while the sync status command runs beside them.
NextStore ==
    \/ \E f \in StoreFiles : StartRetrieve(1, f)
    \/ RetrieveFails(1)
    \/ RetrieveReturns(1)
    \/ StartSafeDeploy(1, PathFooCls)
    \/ CheckUserReturns(1, Some(UserBo))
    \/ ConnUserReturns(1, Some(UserBo))
    \/ AuthInfoReturns(1, TRUE)
    \/ ConnectionCreated(1)
    \/ QueryReturns(1)
    \/ WarningDismissed(1)
    \/ ChooseRetrieveNow(1)
    \/ ChooseDeployAnyway(1)
    \/ ChooseResolve(1)
    \/ \E localPath \in WorkspaceFiles : FetchStart(1, localPath)
    \/ FetchQueryReturns(1)
    \/ DiffShown(1)
    \/ UseOrgVersion(1)
    \/ KeepLocalVersion(1)
    \/ MergeManually(1)
    \/ ResolutionDismissed(1)
    \/ DeployApplied(1)
    \/ DeployFails(1)
    \/ DeployReturns(1)
    \/ ViewSyncStatus
    \/ \E selected \in {Null, ClearAllItem}
                           \cup {Some(k) : k \in DOMAIN viewer.retrieveMap} :
          ViewPick(selected)
    \/ \E confirm \in BOOLEAN : ViewConfirmAll(confirm)
    \/ \E confirm \in BOOLEAN : ViewConfirm(confirm)
    \/ RemoteModify(KeyFoo, Some(ProfileAl), StoreRows)
    \/ Tick(ConnectionTTL, MaxResolveTicks)

SpecStore == Init /\ [][NextStore]_vars

\* The extension host ends after sf.deploy.source.path has returned and
\* before the watermark is saved: the session cache and every invocation are
\* gone with it, the workspace state, the files and the org stay. What was
\* interrupted is kept as history.
Interrupted(p) ==
    /\ proc[p].pc = "deployed"
    /\ proc' = [q \in Procs |->
                  IF q = p THEN [proc[p] EXCEPT !.pc = "interrupted"] ELSE Idle]
    /\ cachedConnection' = Null
    /\ connectionExpiry' = Null
    /\ dropped' = Dropped
    /\ UNCHANGED <<clock, workspaceFolder, handles, inSync, workspaceState, org, input, output,
                   localFiles, tempFiles, orgSource, viewer>>

\* The two artifacts named "Foo".
FilesNamedFoo == {PathFooCls, PathFooTrigger}

\* Invocation 1 syncs the class by retrieve, safe deploy or resolution, and
\* can be interrupted in its deploy; when it is not running, invocation 2
\* runs the check of a safe deploy on the class or on the trigger, and goes no
\* further. A colleague changes the trigger in the org.
NextSync ==
    \/ proc[2].pc = "idle" /\ StartRetrieve(1, PathFooCls)
    \/ RetrieveReturns(1)
    \/ proc[2].pc = "idle" /\ StartSafeDeploy(1, PathFooCls)
    \/ \E f \in FilesNamedFoo :
          proc[1].pc \in {"idle", "interrupted"} /\ StartSafeDeploy(2, f)
    \/ \E p \in Procs : CheckUserReturns(p, Some(UserBo))
    \/ \E p \in Procs : ConnUserReturns(p, Some(UserBo))
    \/ \E p \in Procs : AuthInfoReturns(p, TRUE)
    \/ \E p \in Procs : ConnectionCreated(p)
    \/ \E p \in Procs : QueryReturns(p)
    \/ \E p \in Procs : WarningDismissed(p)
    \/ \E p \in Procs : DeployFails(p)
    \/ ChooseDeployAnyway(1)
    \/ ChooseResolve(1)
    \/ FetchStart(1, PathFooCls)
    \/ FetchQueryReturns(1)
    \/ DiffShown(1)
    \/ UseOrgVersion(1)
    \/ MergeManually(1)
    \/ DeployApplied(1)
    \/ DeployReturns(1)
    \/ Interrupted(1)
    \/ \E key \in {Val(PathFacts[f].metadataInfo) : f \in FilesNamedFoo} :
          RemoteModify(key, Some(ProfileAl), StoreRows)
    \/ Tick(10, MaxTicks)

SpecSync == Init /\ [][NextSync]_vars

(***************************************************************************)
(* The decision of checkForConflicts on its own, over a range of records,  *)
(* watermarks and logins                                                   *)
(***************************************************************************)
NameFoo == <<"F", "o", "o">>

NameBar == <<"b", "a", "r">>

\* LastModifiedBy.Name of the records tried: missing, a colleague's, the acting
\* user's, and one that merely contains the acting user's login.
VerdictNames ==
    {<<>>, <<"A", "l", " ", "A">>, <<"B", "o", " ", "B">>, <<"R", "o", "b", "o">>}

\* LastModifiedBy.Username of the records tried.
VerdictLogins == {<<>>, <<"b", "o">>, <<"B", "O">>, <<"a", "l">>, <<"b">>}

\* The logins `sf org display` reports.
VerdictUsers == {<<"B", "o">>, <<"a", "l">>}

\* The instants tried, up to 10 * MaxTicks minutes.
VerdictDates == {10 * i : i \in 0..MaxTicks}

VerdictRecords ==
    [LastModifiedDate : VerdictDates,
     LastModifiedBy   : {Null} \cup {Some(by) : by \in [Name : VerdictNames,
                                                        Username : VerdictLogins]}]

\* The stored watermarks tried: none, one of another artifact only, one of
\* the artifact checked.
VerdictStores ==
    {saveRetrieveMap([k \in {} |-> 0])}
        \cup {saveRetrieveMap([k \in {NameBar} |-> t]) : t \in VerdictDates}
        \cup {saveRetrieveMap([k \in {NameFoo} |-> t]) : t \in VerdictDates}

InitVerdict ==
    /\ clock = 0
    /\ workspaceFolder = Some("w")
    /\ cachedConnection = Null
    /\ connectionExpiry = Null
    /\ handles = 0
    /\ dropped = 0
    /\ inSync = {}
    /\ workspaceState = [k \in {} |-> Null]
    /\ org = [k \in OrgKeys |-> Null]
    /\ proc = [p \in Procs |-> Idle]
    /\ input \in {Some(i) : i \in [orgRecord   : VerdictRecords,
                                   stored      : VerdictStores,
                                   fileName    : {NameFoo},
                                   currentUser : VerdictUsers]}
    /\ output = Null
    /\ localFiles = [f \in WorkspaceFiles |-> SourceX]
    /\ tempFiles = EmptyMap
    /\ orgSource = [k \in OrgKeys |-> EmptyMap]
    /\ viewer = ViewerIdle

\* checkForConflicts decides on the record it was given.
Decide ==
    /\ input # Null
    /\ output = Null
    /\ output' = Some(DecideConflict(Val(input).orgRecord, Val(input).stored,
                                     Val(input).fileName, Val(input).currentUser))
    /\ UNCHANGED <<clock, workspaceFolder, cachedConnection, connectionExpiry, handles,
                   dropped, inSync, workspaceState, org, proc, input,
                   localFiles, tempFiles, orgSource, viewer>>

SpecVerdict == InitVerdict /\ [][Decide]_vars

\* The watermark of the artifact checked, in the arguments of Decide.
InputWatermark == MapGet(getRetrieveMap(Val(input).stored), Val(input).fileName)

(***************************************************************************)
(* getMetadataInfo on its own, over a range of paths                       *)
(***************************************************************************)
\* The paths tried: under /w, up to four directories named lwc, bar or baz,
\* then a file: a bundle-eligible one, Apex files with extensions in lower
\* and upper case, and a text file.
IdentityPaths ==
    LET segments == {LwcSegment, NameBar, <<"b", "a", "z">>}
        names    == {<<"a", "p", "p">> \o ExtJs, <<"a", "p", "p">> \o ExtHtml,
                     <<"a", "p", "p">> \o ExtCss, NameFoo \o ExtCls,
                     NameFoo \o <<".", "C", "L", "S">>, NameFoo \o ExtTrigger,
                     NameFoo \o ExtApex, <<"n", ".", "t", "x", "t">>}
        dirs     == UNION {[1..n -> segments] : n \in 0..4}
    IN  {Join(<<<<>>, <<"w">>>> \o d \o <<name>>, <<"/">>) : d \in dirs, name \in names}

InitIdentity ==
    /\ clock = 0
    /\ workspaceFolder = Some("w")
    /\ cachedConnection = Null
    /\ connectionExpiry = Null
    /\ handles = 0
    /\ dropped = 0
    /\ inSync = {}
    /\ workspaceState = [k \in {} |-> Null]
    /\ org = [k \in OrgKeys |-> Null]
    /\ proc = [p \in Procs |-> Idle]
    /\ input \in {Some(f) : f \in IdentityPaths}
    /\ output = Null
    /\ localFiles = [f \in WorkspaceFiles |-> SourceX]
    /\ tempFiles = EmptyMap
    /\ orgSource = [k \in OrgKeys |-> EmptyMap]
    /\ viewer = ViewerIdle

\* A command resolves the identity of the file it is invoked on.
ResolveIdentity ==
    /\ input # Null
    /\ output = Null
    /\ output' = Some(getMetadataInfo(Val(input)))
    /\ UNCHANGED <<clock, workspaceFolder, cachedConnection, connectionExpiry, handles,
                   dropped, inSync, workspaceState, org, proc, input,
                   localFiles, tempFiles, orgSource, viewer>>

SpecIdentity == InitIdentity /\ [][ResolveIdentity]_vars

(***************************************************************************)
(* Properties                                                              *)
(***************************************************************************)
\* The invocations whose verdict was computed from a remote record.
Decided == {p \in Procs : proc[p].cause = "decided"}

\* C1: with a watermark T and the remote record found, the verdict is a
\* conflict exactly when the record's last-modified instant is strictly later
\* than T, whoever modified it last.
C1_TimestampMode ==
    \A p \in Decided :
        proc[p].lastRetrieved # Null =>
            (Val(proc[p].conflictInfo).hasConflict
                <=> Val(proc[p].orgRecord).LastModifiedDate > Val(proc[p].lastRetrieved))

\* C1 happens: a record the acting user themself modified after the
\* watermark is reported as a conflict.
C1_Witness ==
    \E p \in Decided :
        /\ proc[p].lastRetrieved # Null
        /\ Val(proc[p].orgRecord).LastModifiedBy = Some(ProfileBo)
        /\ Val(proc[p].conflictInfo).hasConflict

\* C2: without a watermark, a remote login that differs from the acting
\* user's login (compared case-insensitively) is a conflict.
C2_LoginMismatchIsConflict ==
    (/\ output # Null
     /\ InputWatermark = Null
     /\ ToLowerCase(ModifiedByUsername(Val(input).orgRecord))
            # ToLowerCase(Val(input).currentUser))
        => Val(output).hasConflict

\* C3: without a watermark, a remote login equal to the acting user's login
\* up to letter case is no conflict.
C3_SameLoginNoConflict ==
    (/\ output # Null
     /\ InputWatermark = Null
     /\ ToLowerCase(ModifiedByUsername(Val(input).orgRecord))
            = ToLowerCase(Val(input).currentUser))
        => ~Val(output).hasConflict

\* C3 happens: the logins differ in letter case only, the display name does
\* not contain the login, and the verdict is no conflict.
C3_Witness ==
    /\ output # Null
    /\ InputWatermark = Null
    /\ Val(input).currentUser = <<"B", "o">>
    /\ Val(input).orgRecord.LastModifiedBy
           = Some([Name |-> <<"A", "l", " ", "A">>, Username |-> <<"B", "O">>])
    /\ ~Val(output).hasConflict

\* C4: a check that ended on a failure path (no workspace folder, no
\* identity, no session, a query that threw, no record) returned
\* hasConflict = false, and safeDeploy went on to the deploy.
C4_FailOpen ==
    \A p \in Procs :
        proc[p].cause \in {"workspace", "identity", "session", "query", "record"} =>
            /\ proc[p].conflictInfo # Null
            /\ ~Val(proc[p].conflictInfo).hasConflict
            /\ proc[p].pc \in {"deploying", "deployed"}

\* C4 happens: the remote query threw and the deploy was started.
C4_Witness ==
    \E p \in Procs : proc[p].cause = "query" /\ proc[p].pc = "deploying"

\* C5: a check of an artifact that was synced by a retrieve or a deploy, and
\* not changed in the org since, finds no conflict.
C5_SyncedThenNoConflict ==
    \A p \in Decided : proc[p].synced => ~Val(proc[p].conflictInfo).hasConflict

\* C5 happens: the record was last modified by a colleague, the artifact was
\* retrieved after that, and the check finds no conflict.
C5_Witness ==
    \E p \in Decided :
        /\ proc[p].synced
        /\ Val(proc[p].orgRecord).LastModifiedBy = Some(ProfileAl)
        /\ ~Val(proc[p].conflictInfo).hasConflict

\* C6: a conflict verdict carries the reason tag of its mode:
\* "never-synced-identity-mismatch" without a watermark, "stale-watermark"
\* with one.
C6_ReasonTagsDistinguishModes ==
    (output # Null /\ Val(output).hasConflict) =>
        Val(output).reason = IF InputWatermark = Null
                             THEN Some("never-synced-identity-mismatch")
                             ELSE Some("stale-watermark")

\* The invocations holding a handle getSalesforceConnection returned, with no
\* clearing of the cache since.
Holding == {p \in Procs : proc[p].conn # Null /\ ~proc[p].stale}

\* C7: two getSalesforceConnection calls less than 30 minutes apart, with no
\* invalidation in between, returned the identical handle, and the later of
\* them looked no identity up.
C7_OneHandleWithinTTL ==
    \A p \in Holding : \A q \in Holding \ {p} :
        (/\ Val(proc[p].now) <= Val(proc[q].now)
         /\ Val(proc[q].now) - Val(proc[p].now) < ConnectionTTL)
            => (proc[p].conn = proc[q].conn /\ ~proc[q].lookedUp)

\* Invocation p gets a handle from getSalesforceConnection in this step.
Obtains(p) == proc[p].conn = Null /\ proc'[p].conn # Null

\* C8: a handle returned from the cache is returned strictly before the
\* expiry stored with it.
C8_NoReuseAtOrPastExpiry ==
    [][\A p \in Procs :
          (Obtains(p) /\ ~proc'[p].lookedUp) =>
              /\ proc'[p].conn = cachedConnection
              /\ connectionExpiry # Null
              /\ clock < Val(connectionExpiry)]_vars

\* C8 happens: a call made 10 minutes before the cached handle's expiry got
\* that handle from the cache.
C8_Witness ==
    \E p \in Procs :
        /\ proc[p].pc = "query"
        /\ ~proc[p].lookedUp
        /\ proc[p].conn = cachedConnection
        /\ Val(proc[p].now) + 10 = Val(connectionExpiry)

\* A step in which getSalesforceConnection fails, or the workspace folders
\* change.
Invalidation ==
    \/ \E p \in Procs :
          /\ proc[p].pc \in {"checkUser", "connUser", "connAuth", "connCreate"}
          /\ proc'[p].cause = "session"
    \/ \E folder \in {Null, Some("w")} : clearCacheOnWorkspaceChange(folder)

\* Invocation p calls getSalesforceConnection in this step.
Calls(p) == proc[p].pc = "checkUser" /\ proc'[p].now # Null

C10_QueryFailureInvalidates ==
    \A p \in Procs : proc[p].cause = "query" => cachedConnection # proc[p].conn


\* The watermark stored for the artifact of a file: Null without one.
Watermark(stored, filePath) ==
    MapGet(getRetrieveMap(stored), Val(PathFacts[filePath].metadataInfo).name)

\* C11: 'Use Org Version' on a single-file artifact leaves the local file
\* with the content of the snapshot that was fetched, sets the artifact's
\* watermark to the current time, and is resolved: safeDeploy goes on to the
\* deploy.
C11_AdoptRemoteSingleFile ==
    [][\A p \in Procs :
          (UseOrgVersion(p) /\ ~IsBundleFile(Val(proc[p].filePath))) =>
              LET f == Val(proc[p].filePath)
              IN  /\ \E s \in proc[p].seen :
                         s.localPath = f /\ s.content = Some(localFiles'[f])
                  /\ localFiles'[f] = tempFiles[Val(proc[p].orgFilePath)]
                  /\ Watermark(workspaceState', f) = Some(clock)
                  /\ proc'[p].pc = "deploying"]_vars

\* C11 happens: the class was changed in the org, 'Use Org Version' was
\* chosen, and the local file now has the org's content.
C11_Witness ==
    \E p \in Procs :
        /\ proc[p].choice = "org"
        /\ proc[p].pc = "deploying"
        /\ proc[p].filePath = Some(PathFooCls)
        /\ localFiles[PathFooCls] = SourceY
        /\ Watermark(workspaceState, PathFooCls) # Null

\* C12: 'Keep Local Version' / 'Keep Local (All)' leaves every local file
\* unchanged, sets the artifact's watermark to the current time, and is
\* resolved.
C12_KeepLocalSetsWatermark ==
    [][\A p \in Procs :
          KeepLocalVersion(p) =>
              /\ localFiles' = localFiles
              /\ Watermark(workspaceState', Val(proc[p].filePath)) = Some(clock)
              /\ proc'[p].pc = "deploying"]_vars

\* C13: 'Merge Manually' changes the content of no local file, sets the
\* artifact's watermark to the current time, and is unresolved: safeDeploy
\* returns without a deploy.
C13_ManualKeepsFiles ==
    [][\A p \in Procs :
          MergeManually(p) =>
              /\ localFiles' = localFiles
              /\ Watermark(workspaceState', Val(proc[p].filePath)) = Some(clock)
              /\ proc'[p].pc = "idle"
              /\ org' = org /\ orgSource' = orgSource]_vars

\* C13 happens: 'Merge Manually' was chosen for the bundle, the watermark of
\* the bundle exists and the local files are as they were.
C13_Witness ==
    \E p \in Procs :
        /\ proc[p].choice = "manual"
        /\ proc[p].pc = "idle"
        /\ input = Some(PathAppJs)
        /\ Watermark(workspaceState, PathAppJs) # Null
        /\ localFiles = [f \in WorkspaceFiles |-> SourceX]

\* The invocations of safeDeploy that are resolving a bundle.
ResolvingBundle ==
    {p \in Procs : /\ proc[p].caller = "fetch"
                   /\ proc[p].filePath # Null
                   /\ IsBundleFile(Val(proc[p].filePath))}

\* C14: when the remote snapshot of the file, or of a member of the bundle,
\* cannot be fetched, the resolution is unresolved: it shows no diff and no
\* dialog, and safeDeploy does not go on to the deploy.
C14_FetchFailureUnresolved ==
    \A p \in Procs :
        proc[p].unfetched # {} =>
            proc[p].pc \notin {"diff", "resolvePrompt", "deploying", "deployed"}

\* The position of showLWCDiffAndResolve after its loop and before an answer
\* to its dialog.
LoopDone(p) ==
    \/ proc[p].pc \in {"diff", "resolvePrompt"}
    \/ proc[p].pc = "deploying" /\ proc[p].choice = "none"

\* C15: the diff result of a bundle holds exactly the members whose local
\* content differs from the content their row had in the org when it was
\* queried, a member with empty remote content included.
C15_DiffResultExact ==
    \A p \in ResolvingBundle :
        LoopDone(p) =>
            \A s \in proc[p].seen :
                s.content # Null =>
                    ((\E c \in proc[p].filesWithChanges : c.localPath = s.localPath)
                        <=> s.content # Some(localFiles[s.localPath]))

\* C16: 'Use Org Version (All)' gives every member of the diff result the
\* content of its snapshot, leaves every other file as it was, and writes one
\* watermark, that of the bundle's name, with the current time; it is
\* resolved.
C16_AdoptRemoteBundle ==
    [][\A p \in ResolvingBundle :
          UseOrgVersion(p) =>
              LET changed == {c.localPath : c \in proc[p].filesWithChanges}
                  name    == Val(PathFacts[Val(proc[p].filePath)].metadataInfo).name
              IN  /\ DOMAIN localFiles' = DOMAIN localFiles
                  /\ \A c \in proc[p].filesWithChanges :
                         localFiles'[c.localPath] = tempFiles[c.orgPath]
                  /\ \A g \in DOMAIN localFiles \ changed : localFiles'[g] = localFiles[g]
                  /\ DOMAIN workspaceState' = DOMAIN workspaceState \cup {name}
                  /\ \A k \in DOMAIN workspaceState \ {name} :
                         workspaceState'[k] = workspaceState[k]
                  /\ getRetrieveMap(workspaceState')[name] = clock
                  /\ proc'[p].pc = "deploying"]_vars

\* C16 happens: of the bundle's members only app.js differed; after 'Use Org
\* Version (All)' it has the org's content and app.html is as it was.
C16_Witness ==
    \E p \in ResolvingBundle :
        /\ proc[p].choice = "org"
        /\ {c.localPath : c \in proc[p].filesWithChanges} = {PathAppJs}
        /\ proc[p].unfetched = {}
        /\ localFiles[PathAppJs] = SourceY
        /\ localFiles[PathAppHtml] = SourceX
        /\ Watermark(workspaceState, PathAppJs) # Null

\* The positions of showLWCDiffAndResolve inside its loop.
InLoop == {"fetchStart", "connUser", "connAuth", "connCreate", "fetchQuery"}

\* C17: when the loop of showLWCDiffAndResolve ends with an empty diff
\* result, the resolution is resolved at once: safeDeploy goes on to the
\* deploy without a diff or a dialog, and no local file and no watermark is
\* changed.
C17_EmptyDiffResolved ==
    [][\A p \in ResolvingBundle :
          (/\ proc[p].pc \in InLoop
           /\ proc'[p].pc \notin InLoop
           /\ proc'[p].filesWithChanges = {}) =>
              /\ proc'[p].pc = "deploying"
              /\ localFiles' = localFiles
              /\ workspaceState' = workspaceState]_vars

\* C17 happens: every member of the bundle was fetched and none differs, and
\* safeDeploy is at the deploy without an answer to a dialog.
C17_Witness ==
    \E p \in ResolvingBundle :
        /\ proc[p].pc = "deploying"
        /\ proc[p].choice = "none"
        /\ proc[p].filesWithChanges = {}
        /\ proc[p].unfetched = {}
        /\ {s.localPath : s \in proc[p].seen} = {PathAppJs, PathAppHtml}

\* C18: a watermark leaves the store only in a step that confirms the clear
\* of that entry or of all entries, whatever the other commands do in
\* between.
C18_RemovedOnlyByClear ==
    [][\A k \in DOMAIN workspaceState :
          k \notin DOMAIN workspaceState' =>
              \/ ViewConfirmAll(TRUE)
              \/ ViewConfirm(TRUE) /\ viewer.selected = Some(k)]_vars

\* C19: an entry of the store is added or gets another value only when a
\* retrieve or a deploy returned or the resolution dialog is answered, and a
\* retrieve or deploy that fails leaves the store as it was.
C19_WrittenAtThreeMoments ==
    [][/\ \A k \in DOMAIN workspaceState' :
             (k \notin DOMAIN workspaceState \/ workspaceState'[k] # workspaceState[k]) =>
                 \E p \in Procs : \/ RetrieveReturns(p)
                                  \/ DeployReturns(p)
                                  \/ UseOrgVersion(p)
                                  \/ KeepLocalVersion(p)
                                  \/ MergeManually(p)
       /\ \A p \in Procs :
             (RetrieveFails(p) \/ DeployFails(p)) => workspaceState' = workspaceState]_vars

\* C20: a .js, .html or .css file whose directory is the segment right after
\* an 'lwc' segment resolves to the bundle named by that directory, so all
\* the members of the directory have one identity and one watermark.
C20_MembersShareIdentity ==
    output # Null =>
        LET pathParts == Split(Val(input))
            n         == Len(pathParts)
        IN  (/\ n >= 3
             /\ pathParts[n - 2] = LwcSegment
             /\ ToLowerCase(ExtName(Val(input))) \in {ExtJs, ExtHtml, ExtCss}) =>
                Val(output) = Some([type |-> "LightningComponentBundle",
                                    name |-> pathParts[n - 1]])

\* C21: a path with extension .cls, .trigger or .apex, in any letter case,
\* resolves to the single-file identity of the extension's type, named by the
\* file's base name without its extension, and the resolution writes the
\* watermark under that name.
C21_SingleFileIdentity ==
    output # Null =>
        LET f   == Val(input)
            ext == ToLowerCase(ExtName(f))
        IN  ext \in {ExtCls, ExtTrigger, ExtApex} =>
                /\ Val(output) =
                       Some([type |-> IF ext = ExtCls THEN "ApexClass"
                                      ELSE IF ext = ExtTrigger THEN "ApexTrigger"
                                      ELSE "ApexPage",
                             name |-> BaseName(f, ExtName(f))])
                /\ ResolveKey(f) = Val(Val(output)).name

\* C22: a path whose extension is not eligible, or a .js, .html or .css path
\* that is not inside a bundle directory (a directory right after an 'lwc'
\* segment), is no artifact: isSalesforceFile and getMetadataInfo both say
\* so, and so the commands return before any query, transfer or watermark
\* write.
C22_NotAnArtifact ==
    output # Null =>
        LET f         == Val(input)
            ext       == ToLowerCase(ExtName(f))
            pathParts == Split(f)
            inBundle  == /\ ext \in {ExtJs, ExtHtml, ExtCss}
                         /\ \E i \in 1..(Len(pathParts) - 2) : pathParts[i] = LwcSegment
        IN  (ext \notin {ExtCls, ExtTrigger, ExtApex} /\ ~inBundle) =>
                /\ Val(output) = Null
                /\ ~isSalesforceFile(f)

\* C23: the listing of the sync status holds every stored watermark exactly
\* once, with its timestamp, the most recent first.
C23_ListingByRecency ==
    [][(ViewSyncStatus /\ viewer'.pc = "pick") =>
          LET stored == getRetrieveMap(workspaceState)
              e      == viewer'.entries
          IN  /\ Len(e) = Cardinality(DOMAIN stored)
              /\ {e[i].fileName : i \in 1..Len(e)} = DOMAIN stored
              /\ \A i \in 1..Len(e) : e[i].timestamp = stored[e[i].fileName]
              /\ \A i, j \in 1..Len(e) :
                     i < j => e[i].timestamp >= e[j].timestamp]_vars

\* C23 happens: two watermarks of different instants are listed, the later
\* one first.
C23_Witness ==
    /\ viewer.pc = "pick"
    /\ Len(viewer.entries) = 2
    /\ viewer.entries[1].timestamp > viewer.entries[2].timestamp

\* C24: once the check has reported a conflict, safeDeploy invokes the deploy
\* only after 'Deploy Anyway' or after a resolution that ended resolved, and a
\* resolution in which a fetch failed does not end resolved.
C24_DeployOnlyWhenCleared ==
    \A p \in Procs :
        (/\ proc[p].pc = "deploying"
         /\ proc[p].conflictInfo # Null
         /\ Val(proc[p].conflictInfo).hasConflict)
        => \/ proc[p].caller # "fetch"
           \/ /\ proc[p].unfetched = {}
              /\ \/ proc[p].choice \in {"org", "local"}
                 \/ proc[p].filesWithChanges = {}

\* C25: after a safe deploy was interrupted between the deploy and the saving
\* of its watermark, a check of the same artifact that finds a watermark older
\* than the interrupted command reports a conflict.
C25_StaleWatermarkConflicts ==
    [][(/\ proc[1].pc = "interrupted"
        /\ QueryReturns(2)
        /\ proc[2].filePath = proc[1].filePath
        /\ proc[1].now # Null
        /\ Watermark(workspaceState, Val(proc[2].filePath)) # Null
        /\ Val(Watermark(workspaceState, Val(proc[2].filePath))) < Val(proc[1].now))
       => /\ proc'[2].pc = "prompt"
          /\ Val(proc'[2].conflictInfo).hasConflict]_vars

\* C25 happens: the class was retrieved, later safe-deployed and the deploy
\* interrupted; the next check of the class meets the record of the user's own
\* deploy and the watermark of the retrieve, and reports a conflict.
C25_Witness ==
    /\ proc[1].pc = "interrupted"
    /\ proc[2].pc = "prompt"
    /\ proc[2].filePath = proc[1].filePath
    /\ proc[2].cause = "decided"
    /\ proc[2].lastRetrieved # Null
    /\ Val(proc[2].lastRetrieved) < Val(proc[1].now)
    /\ Val(proc[2].orgRecord).LastModifiedBy = Some(ProfileBo)
    /\ Val(proc[2].conflictInfo).hasConflict

\* C26: watermarks are keyed by the artifact's name alone. A retrieve, a deploy
\* or a resolution of one artifact writes the watermark every artifact of that
\* name has, whatever its type, and the check of any of them decides in
\* timestamp mode against that watermark.
C26_KeyedByNameAlone ==
    [][/\ \A p \in Procs :
             (RetrieveReturns(p) \/ DeployReturns(p) \/ UseOrgVersion(p) \/ MergeManually(p))
             => \A g \in FilesNamedFoo :
                    Watermark(workspaceState', g) = Some(SyncInstant)
       /\ \A p \in Procs :
             (/\ QueryReturns(p)
              /\ org[Val(PathFacts[Val(proc[p].filePath)].metadataInfo)] # Null
              /\ Watermark(workspaceState, Val(proc[p].filePath)) # Null)
             => LET g == Val(proc[p].filePath)
                    w == Watermark(workspaceState, g)
                    r == Val(org[Val(PathFacts[g].metadataInfo)])
                IN  /\ proc'[p].lastRetrieved = w
                    /\ Val(proc'[p].conflictInfo).hasConflict
                           = (r.LastModifiedDate > Val(w))]_vars

\* C26 happens: only the class was ever synced, a colleague was the last to
\* change the trigger, and the check of the trigger finds the class's
\* watermark and reports no conflict, where without it the identity mode
\* reports one.
C26_Witness ==
    /\ proc[2].filePath = Some(PathFooTrigger)
    /\ proc[2].cause = "decided"
    /\ proc[2].lastRetrieved # Null
    /\ Val(proc[2].orgRecord).LastModifiedBy = Some(ProfileAl)
    /\ ~Val(proc[2].conflictInfo).hasConflict
    /\ DecideConflict(Val(proc[2].orgRecord), EmptyMap, SyncKey(PathFooTrigger),
                      Val(proc[2].currentUser)).hasConflict

\* C27: the content retrieveOrgVersion fetches for a member of a bundle is the
\* content of that member's own row in the org, also when the bundle has
\* another member whose file name ends with this one's.
C27_FetchesExactMember ==
    [][\A p \in Procs :
          (FetchQueryReturns(p) /\ IsBundleFile(Val(proc[p].member))) =>
              LET member == Val(proc[p].member)
                  rows   == orgSource[Val(PathFacts[member].metadataInfo)]
              IN  /\ PathFacts[member].rowPath \in DOMAIN rows
                  /\ tempFiles'[TempFilePath(member)] = rows[PathFacts[member].rowPath]]_vars

\* C28: whatever the interleaving of getSalesforceConnection calls, workspace
\* changes and deactivate, the session cache holds a handle exactly when it
\* holds an expiry.
C28_CacheConsistent ==
    (cachedConnection = Null) <=> (connectionExpiry = Null)

\* C28 happens: after the cache was cleared, a handle and its expiry are
\* stored while another call is suspended in its construction.
C28_Witness ==
    /\ cachedConnection # Null
    /\ connectionExpiry # Null
    /\ dropped > 0
    /\ \E p \in Procs : proc[p].pc \in {"connUser", "connAuth", "connCreate"}

\* C29: when the resolution dialog of a single file or of a bundle is
\* dismissed, the resolution is unresolved (safeDeploy returns without a
\* deploy) and no local file and no watermark is changed.
C29_DismissedChangesNothing ==
    [][\A p \in Procs :
          (proc[p].pc = "resolvePrompt" /\ proc'[p].choice = "dismissed") =>
              /\ proc'[p].pc = "idle"
              /\ localFiles' = localFiles
              /\ workspaceState' = workspaceState
              /\ org' = org
              /\ orgSource' = orgSource]_vars

\* C29 happens: the dialog of the bundle, whose app.js differs from the org's,
\* was dismissed; the local file still differs and no watermark is stored.
C29_Witness ==
    \E p \in Procs :
        /\ proc[p].choice = "dismissed"
        /\ proc[p].pc = "idle"
        /\ IsBundleFile(Val(input))
        /\ localFiles[PathAppJs] = SourceX
        /\ orgSource[KeyBar][PathFacts[PathAppJs].rowPath] = SourceY
        /\ workspaceState = EmptyMap

\* C30: checkForConflicts changes neither the watermark map nor a local file in
\* any of its steps, whether it ends with a conflict, without one or in a
\* failure, and its verdict is computed from the remote record and the
\* watermark as they are when the query returns.
C30_CheckReadsOnly ==
    [][\A p \in Procs :
          /\ (/\ \/ proc[p].pc \in {"checkUser", "connUser", "connAuth", "connCreate", "query"}
                 \/ proc[p].pc = "idle" /\ proc'[p].filePath # Null
              /\ proc[p].caller # "fetch"
              /\ proc'[p] # proc[p]
              /\ proc[p].pc = "idle" => proc'[p].pc # "retrieving")
             => /\ workspaceState' = workspaceState
                /\ localFiles' = localFiles
          /\ (/\ proc[p].pc = "query"
              /\ proc'[p].cause = "decided")
             => LET f == Val(proc[p].filePath)
                    r == Val(org[Val(PathFacts[f].metadataInfo)])
                    w == Watermark(workspaceState, f)
                    v == Val(proc'[p].conflictInfo)
                IN  /\ org[Val(PathFacts[f].metadataInfo)] # Null
                    /\ v.modifiedDate = Some(r.LastModifiedDate)
                    /\ v.hasConflict =
                           IF w = Null
                           THEN ~isCurrentUser(ModifiedByName(r), ModifiedByUsername(r),
                                               Val(proc[p].currentUser))
                           ELSE r.LastModifiedDate > Val(w)]_vars

\* C30 happens: a check found a watermark and a record a colleague changed
\* after it, reported the conflict, and the watermark is as it was.
C30_Witness ==
    \E p \in Procs :
        /\ proc[p].pc = "prompt"
        /\ proc[p].cause = "decided"
        /\ proc[p].lastRetrieved # Null
        /\ Val(proc[p].orgRecord).LastModifiedBy = Some(ProfileAl)
        /\ Val(proc[p].conflictInfo).hasConflict
        /\ Watermark(workspaceState, Val(proc[p].filePath)) = proc[p].lastRetrieved

=============================================================================
